---- MODULE Spec2Model ----
(***************************************************************************)
(* convert_flexiblecommand.py: the line converter and its file driver.     *)
(*                                                                         *)
(* Text is a sequence of tokens.  A token is a run of characters that the  *)
(* regular expression of convert_flexiblecommand_line treats as a unit:    *)
(* the two halves of the literal prefix, an identifier (\w+ piece), one    *)
(* punctuation character, one white-space character, the line terminator,  *)
(* and the fixed pieces of the text the converter emits.                   *)
(***************************************************************************)
EXTENDS Integers, Sequences, FiniteSets, TLC

VARIABLES
    argv,             \* sys.argv, program name first
    fs,               \* the file system: path -> content (token sequence) or Absent
    fs0,              \* the file system when the process started (history)
    pc,               \* position of main()
    filename,         \* main: filename
    lines,            \* main: lines
    converted_lines,  \* main: converted_lines
    conversions,      \* main: conversions
    i,                \* main: number of lines the for loop has processed
    stdout,           \* what print() has written, one entry per line
    exitcode,         \* process exit status, Running until the process ends
    ops,              \* file operations attempted so far, in order (history)
    raised            \* an exception was raised inside the try block (history)

vars == <<argv, fs, fs0, pc, filename, lines, converted_lines, conversions, i,
          stdout, exitcode, ops, raised>>

----------------------------------------------------------------------------
(* Bounds of the model *)

\* number of lexical fragments an input file is made of
MaxChunks == 4
\* largest number of command-line arguments after the program name
MaxArgs == 2

----------------------------------------------------------------------------
(* Tokens *)

EMIT == "emitCommand("
FACTORY == "FlexibleCommandFactory::create"
NL == "\n"
JSON_OPEN == "emitJSON(buildJSON(\""
JSON_EMPTY == "\", {}"
CONVERTED_FROM == " // Converted from "
TODO_FIELDS == " // TODO: Add fields"

COMMAND_MAPPINGS ==
       ("LoopStart" :> [type |-> "LOOP_START", fields |-> <<"name", "iteration">>])
    @@ ("LoopEnd" :> [type |-> "LOOP_END", fields |-> <<"iterations">>])
    @@ ("LoopEndComplete" :> [type |-> "LOOP_END", fields |-> <<"iterations", "completed">>])
    @@ ("FunctionCallLoop" :> [type |-> "FUNCTION_CALL", fields |-> <<"iteration", "completed">>])
    @@ ("SetupEnd" :> [type |-> "SETUP_END", fields |-> <<"message">>])
    @@ ("IfStatement" :> [type |-> "IF_STATEMENT", fields |-> <<"condition", "branch">>])
    @@ ("WhileLoopStart" :> [type |-> "WHILE_LOOP", fields |-> <<"phase">>])
    @@ ("WhileLoopIteration" :> [type |-> "WHILE_LOOP", fields |-> <<"iteration">>])
    @@ ("WhileLoopEnd" :> [type |-> "WHILE_LOOP", fields |-> <<"iteration">>])
    @@ ("ForLoopStart" :> [type |-> "FOR_LOOP", fields |-> <<"phase">>])
    @@ ("ForLoopIteration" :> [type |-> "FOR_LOOP", fields |-> <<"iteration">>])
    @@ ("ForLoopEnd" :> [type |-> "FOR_LOOP", fields |-> <<"iteration", "maxIterations">>])
    @@ ("DoWhileLoopStart" :> [type |-> "DO_WHILE_LOOP", fields |-> <<"phase">>])
    @@ ("DoWhileLoopIteration" :> [type |-> "DO_WHILE_LOOP", fields |-> <<"iteration">>])
    @@ ("DoWhileLoopEnd" :> [type |-> "DO_WHILE_LOOP", fields |-> <<"iteration">>])
    @@ ("BreakStatement" :> [type |-> "BREAK_STATEMENT", fields |-> <<>>])
    @@ ("ContinueStatement" :> [type |-> "CONTINUE_STATEMENT", fields |-> <<>>])
    @@ ("SwitchStatement" :> [type |-> "SWITCH_STATEMENT", fields |-> <<"discriminant">>])
    @@ ("SwitchCase" :> [type |-> "SWITCH_CASE", fields |-> <<"value", "shouldExecute">>])
    @@ ("ToneWithDuration" :> [type |-> "TONE", fields |-> <<"pin", "frequency", "duration">>])
    @@ ("Tone" :> [type |-> "TONE", fields |-> <<"pin", "frequency">>])
    @@ ("NoTone" :> [type |-> "NO_TONE", fields |-> <<"pin">>])
    @@ ("PinMode" :> [type |-> "PIN_MODE", fields |-> <<"pin", "mode">>])
    @@ ("AnalogWrite" :> [type |-> "ANALOG_WRITE", fields |-> <<"pin", "value">>])
    @@ ("Delay" :> [type |-> "DELAY", fields |-> <<"milliseconds">>])
    @@ ("DelayMicroseconds" :> [type |-> "DELAY_MICROSECONDS", fields |-> <<"microseconds">>])
    @@ ("SerialBegin" :> [type |-> "SERIAL_BEGIN", fields |-> <<"baudRate">>])
    @@ ("SerialPrintln" :> [type |-> "SERIAL_PRINTLN", fields |-> <<"message", "format">>])
    @@ ("SerialWrite" :> [type |-> "SERIAL_WRITE", fields |-> <<"data">>])
    @@ ("SerialFlush" :> [type |-> "SERIAL_FLUSH", fields |-> <<>>])
    @@ ("SerialTimeout" :> [type |-> "SERIAL_TIMEOUT", fields |-> <<"timeout">>])

\* str.upper() of the identifier tokens that have lower-case letters: the
\* table keys and Foo, the identifier of the input alphabet that is no key.
UpperOf ==
       ("LoopStart" :> "LOOPSTART")
    @@ ("LoopEnd" :> "LOOPEND")
    @@ ("LoopEndComplete" :> "LOOPENDCOMPLETE")
    @@ ("FunctionCallLoop" :> "FUNCTIONCALLLOOP")
    @@ ("SetupEnd" :> "SETUPEND")
    @@ ("IfStatement" :> "IFSTATEMENT")
    @@ ("WhileLoopStart" :> "WHILELOOPSTART")
    @@ ("WhileLoopIteration" :> "WHILELOOPITERATION")
    @@ ("WhileLoopEnd" :> "WHILELOOPEND")
    @@ ("ForLoopStart" :> "FORLOOPSTART")
    @@ ("ForLoopIteration" :> "FORLOOPITERATION")
    @@ ("ForLoopEnd" :> "FORLOOPEND")
    @@ ("DoWhileLoopStart" :> "DOWHILELOOPSTART")
    @@ ("DoWhileLoopIteration" :> "DOWHILELOOPITERATION")
    @@ ("DoWhileLoopEnd" :> "DOWHILELOOPEND")
    @@ ("BreakStatement" :> "BREAKSTATEMENT")
    @@ ("ContinueStatement" :> "CONTINUESTATEMENT")
    @@ ("SwitchStatement" :> "SWITCHSTATEMENT")
    @@ ("SwitchCase" :> "SWITCHCASE")
    @@ ("ToneWithDuration" :> "TONEWITHDURATION")
    @@ ("Tone" :> "TONE")
    @@ ("NoTone" :> "NOTONE")
    @@ ("PinMode" :> "PINMODE")
    @@ ("AnalogWrite" :> "ANALOGWRITE")
    @@ ("Delay" :> "DELAY")
    @@ ("DelayMicroseconds" :> "DELAYMICROSECONDS")
    @@ ("SerialBegin" :> "SERIALBEGIN")
    @@ ("SerialPrintln" :> "SERIALPRINTLN")
    @@ ("SerialWrite" :> "SERIALWRITE")
    @@ ("SerialFlush" :> "SERIALFLUSH")
    @@ ("SerialTimeout" :> "SERIALTIMEOUT")
    @@ ("Foo" :> "FOO")

\* str.upper() of one identifier token (digits and upper-case names are fixed)
UpperToken(t) == IF t \in DOMAIN UpperOf THEN UpperOf[t] ELSE t

\* the tokens of the character class \w: identifiers, the digit 1, upper-case names
WordTokens ==
    DOMAIN UpperOf
    \cup {UpperOf[w] : w \in DOMAIN UpperOf}
    \cup {COMMAND_MAPPINGS[k].type : k \in DOMAIN COMMAND_MAPPINGS}
    \cup {"1"}

IsWord(t) == t \in WordTokens

\* the character class \s
IsSpace(t) == t \in {" ", NL}

----------------------------------------------------------------------------
(* re.search(pattern, line) *)

\* the pattern without its emitCommand\( head
LiteralAt_anyCaller(line, p) ==
    /\ p >= 1
    /\ p + 1 <= Len(line)
    /\ line[p + 1] = FACTORY

\* the literal head of the pattern, emitCommand\(FlexibleCommandFactory::create
LiteralAt(line, p) ==
    /\ p >= 1
    /\ p + 1 <= Len(line)
    /\ line[p] = EMIT
    /\ line[p + 1] = FACTORY

\* The ways the pattern matches with its first character at position p: n is
\* the length of group 1 (\w+), k the length of group 2 (.*?, which does not
\* cross a line terminator); \( follows group 1 and \)\); follows group 2.
MatchesAt(line, p) ==
    IF ~LiteralAt(line, p) THEN {}
    ELSE LET names == {n \in 1..(Len(line) - p - 2) :
                          /\ \A q \in (p + 2)..(p + 1 + n) : IsWord(line[q])
                          /\ line[p + 2 + n] = "("}
             ArgsFrom(a) == {k \in 0..(Len(line) - a - 2) :
                                /\ \A q \in a..(a + k - 1) : line[q] # NL
                                /\ line[a + k] = ")"
                                /\ line[a + k + 1] = ")"
                                /\ line[a + k + 2] = ";"}
         IN  UNION {{<<n, k>> : k \in ArgsFrom(p + 3 + n)} : n \in names}

\* The match the backtracking engine reports at p: \w+ is greedy (longest
\* group 1 that lets the rest match), then .*? is lazy (shortest group 2).
MatchAt(line, p) ==
    LET all == MatchesAt(line, p)
        n == CHOOSE x \in {nk[1] : nk \in all} : \A nk \in all : nk[1] <= x
        k == CHOOSE x \in {nk[2] : nk \in {y \in all : y[1] = n}} :
                 \A nk \in {y \in all : y[1] = n} : x <= nk[2]
    IN  [start |-> p, nameLen |-> n, argsLen |-> k]

\* positions of the line at which the pattern matches
MatchStarts(line) == {p \in 1..Len(line) : MatchesAt(line, p) # {}}

NoMatch == [start |-> 0, nameLen |-> 0, argsLen |-> 0]

\* re.search: the match at the leftmost position that has one, or None
Search(line) ==
    LET starts == MatchStarts(line)
    IN  IF starts = {} THEN NoMatch
        ELSE MatchAt(line, CHOOSE p \in starts : \A q \in starts : p <= q)

\* match.group(1), match.group(2) and match.group(0) of a match m
Group1(line, m) == SubSeq(line, m.start + 2, m.start + 1 + m.nameLen)
Group2(line, m) ==
    SubSeq(line, m.start + 3 + m.nameLen, m.start + 2 + m.nameLen + m.argsLen)
MatchEnd(m) == m.start + 2 + m.nameLen + m.argsLen + 3

----------------------------------------------------------------------------
(* convert_flexiblecommand_line *)

\* command_type in COMMAND_MAPPINGS: the name is one identifier token that is
\* a key (identifier tokens of the alphabet never join into a key)
InMappings(command_type) ==
    Len(command_type) = 1 /\ command_type[1] \in DOMAIN COMMAND_MAPPINGS

\* the name left as written
Upper_asWritten(command_type) == command_type

\* command_type.upper()
Upper(command_type) ==
    [q \in 1..Len(command_type) |-> UpperToken(command_type[q])]

\* str.replace(old, new, 1): the first occurrence only
RECURSIVE Replace_firstOnly(_, _, _)
Replace_firstOnly(s, old, new) ==
    IF Len(s) < Len(old) \/ old = <<>> THEN s
    ELSE IF SubSeq(s, 1, Len(old)) = old
         THEN new \o SubSeq(s, Len(old) + 1, Len(s))
         ELSE <<Head(s)>> \o Replace_firstOnly(Tail(s), old, new)

\* str.replace(old, new): every non-overlapping occurrence, left to right
RECURSIVE Replace(_, _, _)
Replace(s, old, new) ==
    IF Len(s) < Len(old) \/ old = <<>> THEN s
    ELSE IF SubSeq(s, 1, Len(old)) = old
         THEN new \o Replace(SubSeq(s, Len(old) + 1, Len(s)), old, new)
         ELSE <<Head(s)>> \o Replace(Tail(s), old, new)

\* the indentation dropped
Indent_dropped(line) == <<>>

\* re.match(r'(\s*)', line).group(1): the leading white space of the line
RECURSIVE Indent(_)
Indent(line) ==
    IF line # <<>> /\ IsSpace(Head(line))
    THEN <<Head(line)>> \o Indent(Tail(line))
    ELSE <<>>

\* the text the unknown-command branch searches for, and what it puts there
OldCall(command_type, args) ==
    <<EMIT, FACTORY>> \o command_type \o <<"(">> \o args \o <<")", ")", ";">>
GenericCall(command_type) ==
    <<JSON_OPEN>> \o Upper(command_type) \o <<JSON_EMPTY, ")", ")", ";", TODO_FIELDS>>

\* the known-command branch keeping the text that follows the call
KnownLine_keepRest(line, command_type) ==
    Indent(line)
    \o <<JSON_OPEN, COMMAND_MAPPINGS[command_type[1]].type, JSON_EMPTY, ")", ")", ";",
         CONVERTED_FROM>>
    \o command_type
    \o SubSeq(line, MatchEnd(Search(line)) + 1, Len(line))

\* the line the known-command branch returns
KnownLine(line, command_type) ==
    Indent(line)
    \o <<JSON_OPEN, COMMAND_MAPPINGS[command_type[1]].type, JSON_EMPTY, ")", ")", ";",
         CONVERTED_FROM>>
    \o command_type

convert_flexiblecommand_line(line) ==
    LET match == Search(line)
        command_type == Group1(line, match)
        args == Group2(line, match)
    IN  IF match = NoMatch THEN line
        ELSE IF ~InMappings(command_type)
             THEN Replace(line, OldCall(command_type, args), GenericCall(command_type))
             ELSE KnownLine(line, command_type)

----------------------------------------------------------------------------
(* Files and the inputs of a run *)

INPUT_PATH == <<"in.cpp">>

\* the output written over the input
OutputFilename_inPlace(path) == path

\* filename + ".converted"
OutputFilename(path) == Append(path, ".converted")

Paths == {INPUT_PATH, OutputFilename(INPUT_PATH)}

Absent == [exists |-> FALSE, data |-> <<>>]
File(data) == [exists |-> TRUE, data |-> data]

\* The lexical fragments input text is made of: white space, the opening of
\* a call of a known and of an unknown command, the closing of a call, an
\* argument or other identifier text, a factory call that is not wrapped in
\* emitCommand, and the line terminator.
Chunks ==
    { <<" ">>,
      <<EMIT, FACTORY, "Delay", "(">>,
      <<EMIT, FACTORY, "Foo", "(">>,
      <<")", ")", ";">>,
      <<"1">>,
      <<FACTORY, "Delay", "(">>,
      <<NL>> }

RECURSIVE Texts(_)
Texts(n) ==
    IF n = 0 THEN {<<>>}
    ELSE LET shorter == Texts(n - 1)
         IN  shorter \cup {t \o c : t \in shorter, c \in Chunks}

InputTexts == Texts(MaxChunks)

\* content an output file left by an earlier run may hold
STALE == <<"1", NL>>

RECURSIVE ArgLists(_)
ArgLists(n) ==
    IF n = 0 THEN {<<>>}
    ELSE LET shorter == ArgLists(n - 1)
         IN  shorter \cup {Append(a, INPUT_PATH) : a \in shorter}

\* f.readlines(): the content cut after every line terminator
RECURSIVE readlines(_)
readlines(data) ==
    IF data = <<>> THEN <<>>
    ELSE LET ends == {q \in 1..Len(data) : data[q] = NL \/ q = Len(data)}
             n == CHOOSE q \in ends : \A r \in ends : q <= r
         IN  <<SubSeq(data, 1, n)>> \o readlines(SubSeq(data, n + 1, Len(data)))

\* f.writelines(ls): the lines written one after the other, nothing added
RECURSIVE writelines(_)
writelines(ls) ==
    IF ls = <<>> THEN <<>> ELSE Head(ls) \o writelines(Tail(ls))

----------------------------------------------------------------------------
(* main *)

Running == -1

Usage == [kind |-> "Usage: python3 convert_flexiblecommand.py <input_file>",
          n |-> 0, path |-> <<>>]
ErrorLine == [kind |-> "Error: ", n |-> 0, path |-> <<>>]
ConvertedLine(n) == [kind |-> "Converted N FlexibleCommand calls", n |-> n, path |-> <<>>]
WrittenLine(path) == [kind |-> "Output written to: ", n |-> 0, path |-> path]

Init ==
    /\ argv \in {<<"convert_flexiblecommand.py">> \o a : a \in ArgLists(MaxArgs)}
    \* the input file is missing or holds some text; an output file of an
    \* earlier run may be there.  A run that stops at the usage message never
    \* looks at the files: one file system stands for all of them.
    /\ \E input \in IF Len(argv) = 2 THEN {Absent} \cup {File(t) : t \in InputTexts}
                    ELSE {File(<<>>)},
          output \in {Absent, File(STALE)} :
            fs = (INPUT_PATH :> input) @@ (OutputFilename(INPUT_PATH) :> output)
    /\ fs0 = fs
    /\ pc = "start"
    /\ filename = <<>>
    /\ lines = <<>>
    /\ converted_lines = <<>>
    /\ conversions = 0
    /\ i = 0
    /\ stdout = <<>>
    /\ exitcode = Running
    /\ ops = <<>>
    /\ raised = FALSE

\* the argument check as len(sys.argv) < 2
CheckArgs_tooFewOnly ==
    /\ pc = "start"
    /\ IF Len(argv) < 2
       THEN /\ stdout' = Append(stdout, Usage)
            /\ exitcode' = 1
            /\ pc' = "exit"
            /\ UNCHANGED filename
       ELSE /\ filename' = argv[2]
            /\ pc' = "open_input"
            /\ UNCHANGED <<stdout, exitcode>>
    /\ UNCHANGED <<argv, fs, fs0, lines, converted_lines, conversions, i, ops, raised>>

\* lines 73-77: the argument count, then filename = sys.argv[1]
CheckArgs ==
    /\ pc = "start"
    /\ IF Len(argv) # 2
       THEN /\ stdout' = Append(stdout, Usage)
            /\ exitcode' = 1
            /\ pc' = "exit"
            /\ UNCHANGED filename
       ELSE /\ filename' = argv[2]
            /\ pc' = "open_input"
            /\ UNCHANGED <<stdout, exitcode>>
    /\ UNCHANGED <<argv, fs, fs0, lines, converted_lines, conversions, i, ops, raised>>

\* an exception leaves the try block: control goes to the except clause
Raise ==
    /\ pc' = "except"
    /\ raised' = TRUE

\* line 80: open(filename, 'r'); fails when the file is missing, may fail
\* when it is there (permissions)
OpenInput ==
    /\ pc = "open_input"
    /\ ops' = Append(ops, [op |-> "open_r", path |-> filename])
    /\ \/ /\ fs[filename].exists
          /\ pc' = "read"
          /\ UNCHANGED raised
       \/ Raise
    /\ UNCHANGED <<argv, fs, fs0, filename, lines, converted_lines, conversions, i,
                   stdout, exitcode>>

\* lines 81-84: f.readlines() (may fail: decoding, I/O), then the two locals
ReadLines ==
    /\ pc = "read"
    /\ ops' = Append(ops, [op |-> "read", path |-> filename])
    /\ \/ /\ lines' = readlines(fs[filename].data)
          /\ converted_lines' = <<>>
          /\ conversions' = 0
          /\ i' = 0
          /\ pc' = "loop"
          /\ UNCHANGED raised
       \/ /\ Raise
          /\ UNCHANGED <<lines, converted_lines, conversions, i>>
    /\ UNCHANGED <<argv, fs, fs0, filename, stdout, exitcode>>

\* the loop counting every line that holds the literal, changed or not
ForLine_countLiteral ==
    /\ pc = "loop"
    /\ i < Len(lines)
    /\ LET line == lines[i + 1]
           new_line == convert_flexiblecommand_line(line)
       IN  /\ conversions' = IF \E p \in 1..Len(line) : LiteralAt(line, p)
                             THEN conversions + 1 ELSE conversions
           /\ converted_lines' = Append(converted_lines, new_line)
    /\ i' = i + 1
    /\ UNCHANGED <<argv, fs, fs0, pc, filename, lines, stdout, exitcode, ops, raised>>

\* lines 86-90: one turn of the for loop
ForLine ==
    /\ pc = "loop"
    /\ i < Len(lines)
    /\ LET line == lines[i + 1]
           new_line == convert_flexiblecommand_line(line)
       IN  /\ conversions' = IF new_line # line THEN conversions + 1 ELSE conversions
           /\ converted_lines' = Append(converted_lines, new_line)
    /\ i' = i + 1
    /\ UNCHANGED <<argv, fs, fs0, pc, filename, lines, stdout, exitcode, ops, raised>>

\* lines 93-94: after the loop, open(output_filename, 'w') creates or
\* truncates the file, or fails and leaves it alone
OpenOutput ==
    /\ pc = "loop"
    /\ i = Len(lines)
    /\ LET output_filename == OutputFilename(filename)
       IN  /\ ops' = Append(ops, [op |-> "open_w", path |-> output_filename])
           /\ \/ /\ fs' = [fs EXCEPT ![output_filename] = File(<<>>)]
                 /\ pc' = "write"
                 /\ UNCHANGED raised
              \/ /\ Raise
                 /\ UNCHANGED fs
    /\ UNCHANGED <<argv, fs0, filename, lines, converted_lines, conversions, i,
                   stdout, exitcode>>

\* line 95: f.writelines(converted_lines) and the close of the file; a
\* failure leaves the lines written so far
WriteLines ==
    /\ pc = "write"
    /\ LET output_filename == OutputFilename(filename)
       IN  /\ ops' = Append(ops, [op |-> "write", path |-> output_filename])
           /\ \/ /\ fs' = [fs EXCEPT ![output_filename] =
                                File(writelines(converted_lines))]
                 /\ pc' = "print"
                 /\ UNCHANGED raised
              \/ /\ \E n \in 0..Len(converted_lines) :
                        fs' = [fs EXCEPT ![output_filename] =
                                  File(writelines(SubSeq(converted_lines, 1, n)))]
                 /\ Raise
    /\ UNCHANGED <<argv, fs0, filename, lines, converted_lines, conversions, i,
                   stdout, exitcode>>

\* lines 97-98: the two summary lines; main returns, exit status 0
PrintSummary ==
    /\ pc = "print"
    /\ stdout' = stdout \o <<ConvertedLine(conversions),
                             WrittenLine(OutputFilename(filename))>>
    /\ exitcode' = 0
    /\ pc' = "exit"
    /\ UNCHANGED <<argv, fs, fs0, filename, lines, converted_lines, conversions, i,
                   ops, raised>>

\* the except clause without sys.exit(1): main returns, exit status 0
HandleException_noExit ==
    /\ pc = "except"
    /\ stdout' = Append(stdout, ErrorLine)
    /\ exitcode' = 0
    /\ pc' = "exit"
    /\ UNCHANGED <<argv, fs, fs0, filename, lines, converted_lines, conversions, i,
                   ops, raised>>

\* lines 100-102: except Exception: print the error, sys.exit(1)
HandleException ==
    /\ pc = "except"
    /\ stdout' = Append(stdout, ErrorLine)
    /\ exitcode' = 1
    /\ pc' = "exit"
    /\ UNCHANGED <<argv, fs, fs0, filename, lines, converted_lines, conversions, i,
                   ops, raised>>

Next ==
    \/ CheckArgs
    \/ OpenInput
    \/ ReadLines
    \/ ForLine
    \/ OpenOutput
    \/ WriteLines
    \/ PrintSummary
    \/ HandleException

Spec == Init /\ [][Next]_vars

----------------------------------------------------------------------------
(* Vocabulary of the properties *)

\* the for loop has just finished a turn: lines[i] went in, converted_lines[i] came out
Processed == pc = "loop" /\ i >= 1
LastLine == lines[i]
LastResult == converted_lines[i]

\* number of white-space tokens the line starts with
LeadingSpaces(line) ==
    CHOOSE n \in 0..Len(line) :
        /\ \A q \in 1..n : line[q] \in {" ", NL}
        /\ n < Len(line) => line[n + 1] \notin {" ", NL}

CloseAt(line, z) ==
    z >= 1 /\ z + 2 <= Len(line) /\ line[z] = ")" /\ line[z + 1] = ")" /\ line[z + 2] = ";"

\* <indent>emitCommand(FlexibleCommandFactory::create<Known>(<args>));<suffix>
\* with no )); inside <args>; z is where the closing )); starts
KnownCallEndsAt(line, z) ==
    LET ind == LeadingSpaces(line)
    IN  /\ ind + 4 <= Len(line)
        /\ line[ind + 1] = EMIT
        /\ line[ind + 2] = FACTORY
        /\ line[ind + 3] \in DOMAIN COMMAND_MAPPINGS
        /\ line[ind + 4] = "("
        /\ z >= ind + 5
        /\ CloseAt(line, z)
        /\ \A q \in (ind + 5)..(z - 3) : ~CloseAt(line, q)
IsKnownCallLine(line) == \E z \in 1..Len(line) : KnownCallEndsAt(line, z)

\* s holds t as a run of consecutive tokens
Contains(s, t) ==
    \E q \in 0..(Len(s) - Len(t)) : SubSeq(s, q + 1, q + Len(t)) = t
EndsWith(s, t) ==
    Len(t) <= Len(s) /\ SubSeq(s, Len(s) - Len(t) + 1, Len(s)) = t
StartsWith(s, t) ==
    Len(t) <= Len(s) /\ SubSeq(s, 1, Len(t)) = t
HasTerminator(line) == line # <<>> /\ line[Len(line)] = NL

\* the line holds the literal emitCommand(FlexibleCommandFactory::create
ContainsLiteral(line) == Contains(line, <<EMIT, FACTORY>>)

\* the first match of a line names a command that is not in the table
FirstUnknown(line) ==
    Search(line) # NoMatch /\ ~InMappings(Group1(line, Search(line)))
FirstKnown(line) ==
    Search(line) # NoMatch /\ InMappings(Group1(line, Search(line)))

\* <NAME-UPPERCASED> of a name, token by token
Uppercased(name) ==
    [q \in 1..Len(name) |-> IF name[q] \in DOMAIN UpperOf THEN UpperOf[name[q]] ELSE name[q]]
\* emitJSON(buildJSON("<NAME-UPPERCASED>", {})); // TODO: Add fields
TodoCall(name) ==
    <<JSON_OPEN>> \o Uppercased(name) \o <<JSON_EMPTY, ")", ")", ";", TODO_FIELDS>>
FirstCallText(line) == SubSeq(line, Search(line).start, MatchEnd(Search(line)))
BeforeFirstCall(line) == SubSeq(line, 1, Search(line).start - 1)
AfterFirstCall(line) == SubSeq(line, MatchEnd(Search(line)) + 1, Len(line))

\* r is s with every occurrence of old, taken left to right, turned into new
\* and every other token kept
RECURSIVE EveryOccurrenceReplaced(_, _, _, _)
EveryOccurrenceReplaced(s, r, old, new) ==
    IF s = <<>> THEN r = <<>>
    ELSE IF StartsWith(s, old)
         THEN /\ StartsWith(r, new)
              /\ EveryOccurrenceReplaced(SubSeq(s, Len(old) + 1, Len(s)),
                                         SubSeq(r, Len(new) + 1, Len(r)), old, new)
         ELSE /\ r # <<>>
              /\ Head(r) = Head(s)
              /\ EveryOccurrenceReplaced(Tail(s), Tail(r), old, new)

\* number of the first n lines that the converter changes
Changed(n) ==
    Cardinality({q \in 1..n : convert_flexiblecommand_line(lines[q]) # lines[q]})

----------------------------------------------------------------------------
(* C1 *)

\* C1: a line <indent>emitCommand(FlexibleCommandFactory::create<Known>(<args>));<suffix>
\* with <Known> in the table and no )); in <args> converts to exactly
\* <indent>emitJSON(buildJSON("<jsonType>", {})); // Converted from <Known>:
\* the indentation kept, the payload empty, nothing of <args> (or of <suffix>) left.
C1_KnownCallResult ==
    Processed /\ IsKnownCallLine(LastLine) =>
        LET ind == LeadingSpaces(LastLine)
            known == LastLine[ind + 3]
        IN  LastResult =
                SubSeq(LastLine, 1, ind)
                \o <<JSON_OPEN, COMMAND_MAPPINGS[known].type, JSON_EMPTY, ")", ")", ";",
                     CONVERTED_FROM, known>>

\* an indented known call with text after it has been converted
C1_Witness ==
    /\ Processed
    /\ LeadingSpaces(LastLine) >= 1
    /\ \E z \in 1..Len(LastLine) : KnownCallEndsAt(LastLine, z) /\ z + 2 < Len(LastLine)

----------------------------------------------------------------------------
(* C2 *)

----------------------------------------------------------------------------
(* C3 *)

\* C3: a line without the literal emitCommand(FlexibleCommandFactory::create
\* is returned unchanged, and the driver's counter does not move for it.
C3_NoLiteralIdentity ==
    [][pc = "loop" /\ i' = i + 1 /\ ~ContainsLiteral(lines[i + 1]) =>
          /\ converted_lines' = Append(converted_lines, lines[i + 1])
          /\ conversions' = conversions]_vars

\* a line that holds only the second half of the literal went through the loop uncounted
C3_Witness ==
    /\ Processed
    /\ ~ContainsLiteral(LastLine)
    /\ Contains(LastLine, <<FACTORY>>)
    /\ Contains(LastLine, <<")", ")", ";">>)
    /\ conversions = 0

----------------------------------------------------------------------------
(* C4 *)

\* C4: the returned line ends with the line terminator exactly when the
\* input line does.
C4_TerminatorKept ==
    Processed => (HasTerminator(LastResult) <=> HasTerminator(LastLine))

----------------------------------------------------------------------------
(* C5 *)

\* C5: the counter is 0 before the loop and, after each turn, the number of
\* lines so far with convert(line) != line; a successful run prints that
\* number for the whole file.
C5_CountIsChangedLines ==
    /\ pc \in {"loop", "write", "print"} => conversions = Changed(i)
    /\ pc = "exit" /\ exitcode = 0 =>
           /\ i = Len(lines)
           /\ stdout[1] = ConvertedLine(Changed(Len(lines)))

\* a successful run over a file with changed and unchanged lines
C5_Witness ==
    /\ pc = "exit"
    /\ exitcode = 0
    /\ stdout[1].n >= 1
    /\ stdout[1].n < Len(lines)

----------------------------------------------------------------------------
(* C6 *)

\* C6: once an exception is raised while opening, reading or writing, the
\* only line printed is the Error line, the exit status is 1, the summary
\* lines are never printed, and no file operation is attempted twice.
C6_ErrorExit ==
    /\ raised =>
           /\ pc \in {"except", "exit"}
           /\ pc = "except" => stdout = <<>> /\ exitcode = Running
           /\ pc = "exit" => stdout = <<ErrorLine>> /\ exitcode = 1
    /\ \A a, b \in 1..Len(ops) : ops[a] = ops[b] => a = b

\* the run ended after a failed write
C6_Witness ==
    /\ raised
    /\ pc = "exit"
    /\ Len(ops) = 4
    /\ ops[4].op = "write"

----------------------------------------------------------------------------
(* C7 *)

\* C7: with an argument count other than one the run prints the usage
\* message, exits with status 1, and touches no file.
C7_UsageExit ==
    Len(argv) # 2 /\ pc # "start" =>
        /\ pc = "exit"
        /\ stdout = <<Usage>>
        /\ exitcode = 1
        /\ ops = <<>>
        /\ fs = fs0

\* a run with two arguments has ended
C7_Witness == Len(argv) = 3 /\ pc = "exit"

----------------------------------------------------------------------------
(* C8 *)

\* C8 as stated: when the first call is unknown, exactly that one occurrence
\* is replaced; the text before it and all the text after it are unchanged.
C8_AsStated ==
    Processed /\ FirstUnknown(LastLine) =>
        LastResult =
            BeforeFirstCall(LastLine)
            \o TodoCall(Group1(LastLine, Search(LastLine)))
            \o AfterFirstCall(LastLine)

\* C8 amended: when the first call is unknown, every occurrence of the text of
\* that call is replaced, the first one and each later identical one; the text
\* before the first call and everything else, later calls with another text
\* included, is unchanged.
C8_EveryIdenticalCallReplaced ==
    Processed /\ FirstUnknown(LastLine) =>
        /\ StartsWith(LastResult, BeforeFirstCall(LastLine))
        /\ EveryOccurrenceReplaced(LastLine, LastResult, FirstCallText(LastLine),
                                   TodoCall(Group1(LastLine, Search(LastLine))))

\* a line with the same unknown call twice has been converted
C8_Witness ==
    /\ Processed
    /\ FirstUnknown(LastLine)
    /\ Contains(AfterFirstCall(LastLine), FirstCallText(LastLine))

----------------------------------------------------------------------------
(* C9 *)

\* C9 as stated: the converted line holds no matching call, and converting it
\* again changes nothing.
C9_AsStated ==
    Processed =>
        /\ MatchStarts(LastResult) = {}
        /\ convert_flexiblecommand_line(LastResult) = LastResult

\* C9 amended: the same, for a line whose first call is known and for a line
\* in which the pattern matches at no more than one place.
C9_IdempotentOnSingleCall ==
    Processed /\ (FirstKnown(LastLine) \/ Cardinality(MatchStarts(LastLine)) <= 1) =>
        /\ MatchStarts(LastResult) = {}
        /\ convert_flexiblecommand_line(LastResult) = LastResult

\* a known call followed by a second call has been converted
C9_Witness ==
    /\ Processed
    /\ FirstKnown(LastLine)
    /\ Cardinality(MatchStarts(LastLine)) = 2
    /\ LastResult # LastLine

----------------------------------------------------------------------------
(* C10 *)

OpsNamed(name) == {a \in 1..Len(ops) : ops[a].op = name}

\* C10: the output file is opened only after the input was read and every
\* line converted; no operation that writes names the input path; the input
\* file is never changed; and until the output file is opened no file is.
C10_OutputAfterInput ==
    /\ \A a \in OpsNamed("open_w") :
           /\ a = 3
           /\ ops[1].op = "open_r"
           /\ ops[2].op = "read"
           /\ lines = readlines(fs0[filename].data)
           /\ i = Len(lines)
           /\ Len(converted_lines) = Len(lines)
    /\ \A a \in OpsNamed("open_w") \cup OpsNamed("write") : ops[a].path # filename
    /\ fs[INPUT_PATH] = fs0[INPUT_PATH]
    /\ OpsNamed("open_w") = {} => fs = fs0

\* reading failed while an output file of an earlier run was there
C10_Witness ==
    /\ pc = "exit"
    /\ raised
    /\ Len(ops) = 2
    /\ fs0[OutputFilename(INPUT_PATH)] = File(STALE)

====
